---- MODULE Spec2Model ----
(***************************************************************************)
(* Model of leptos-windowing: the sparse item cache (Cache), the loader    *)
(* normalisation layer (InternalLoader) and the on-demand load driver      *)
(* (use_load_on_demand) as driven by use_pagination.  The sources hold two *)
(* revisions of the driver, src/hook.rs and src/use_load_on_demand.rs; the *)
(* variable driver fixes the one a behaviour runs.                         *)
(*                                                                         *)
(* The specifications share the variables:                                 *)
(*   Spec            the reactive driver: effects, tasks, completions;     *)
(*   SpecCache       the Cache API called with (bounded) arguments;        *)
(*   SpecMutation    SpecCache with update_item, remove_item, insert_item; *)
(*   SpecLoader      the InternalLoader functions;                         *)
(*   SpecReload      use_pagination of pagination/hooks (reload trigger);  *)
(*   SpecPagination  PaginationState and use_pagination's two effects;     *)
(*   SpecControls    the signals of use_pagination_controls;               *)
(*   SpecController  the CacheController handed to the rows;               *)
(*   SpecPause       with_reactive_loading_paused and the pause flag;      *)
(*   SpecWriteLoaded SpecCache with write_loaded of any LoadedItems;       *)
(*   SpecLive        the driver under fair scheduling (liveness).          *)
(*                                                                         *)
(* Scheduling.  Effects and spawn_local tasks are tasks of one             *)
(* single-threaded executor: a signal write wakes the subscribed effects,  *)
(* which are appended to the run queue, and the queue is served in order.  *)
(* A user event (a handler writing signals) and the arrival of a loader's  *)
(* answer start when the queue has drained.                                *)
(*                                                                         *)
(* Encoding.  Option<T>: None is <<>>, Some(x) is <<x>>.  Range<usize> is  *)
(* the record [start, end].  A Vec is a sequence; Rust index i is TLA+     *)
(* index i + 1.                                                            *)
(***************************************************************************)
EXTENDS Integers, Sequences, FiniteSets, Bags, TLC

\* ------------------------------------------------------------------ bounds

\* Largest index (exclusive) a cache-API call of SpecCache names.
MaxLen == 3

\* Pages 0..MaxPage can be navigated to.
MaxPage == 2

\* The query changes at most MaxReloads times.
MaxReloads == 2

\* At most MaxTasks spawned tasks are alive at once.
MaxTasks == 3

\* The mutation API is called at most MaxMutations times, after the
\* navigation: a behaviour sets queries and pages, then mutates.
MaxMutations == 1

\* ------------------------------------------------------- the environment

\* The values the query signal takes.
Queries == {1, 2}

\* The largest index a load_items call or a mutation names.
MaxIndex == 2 * MaxLen

\* The number of items the data source holds for a query.
SourceLen(q) == IF q = 1 THEN 3 ELSE 2

\* The item the data source holds at index i for query q.
Item(q, i) == q * 100 + i

\* The query an item was returned for.
QueryOf(v) == v \div 100

\* The loader shapes of the driver specification.
LoaderKinds == {"Paginated", "Exact"}

\* PaginatedLoader::PAGE_ITEM_COUNT of the modelled paginated source.
PAGE_ITEM_COUNT == 2

\* item_count_per_page handed to use_pagination.
item_count_per_page == 1

\* The values of UsePaginationOptions::overscan_page_count.
Overscans == {0, 1}

VARIABLES
    items,                    \* CacheInner::items
    item_count,               \* CacheInner::item_count
    item_count_result,        \* use_load_on_demand: item_count_result
    reload_counter,           \* use_load_on_demand: reload_counter
    query,                    \* the query signal
    current_page,             \* PaginationState::current_page
    cached_range_to_display,  \* use_load_on_demand: cached_range_to_display
    runq,                     \* the executor's queue: woken effects, spawned tasks
    tasks,                    \* the bag of tasks suspended at their await
    query_changes,            \* how often the query signal was written
    driver,                   \* the revision of use_load_on_demand
    loader,                   \* the loader shape (fixed per behaviour)
    overscan_page_count,      \* UsePaginationOptions (fixed per behaviour)
    pagination_item_count,    \* use_pagination: item_count
    page_count,               \* PaginationState::page_count
    page_count_error,         \* PaginationState::page_count_error
    items_per_page,           \* use_pagination: the item_count_per_page signal
    controller_cache,         \* CacheController::cache is Some(cache)
    reactive_loading_active,  \* Cache::is_reactive_loading_active
    paused_calls,             \* with_reactive_loading_paused: is_active of
                              \* the calls whose closure is running
    mutations,                \* how often the mutation API was called
    reload_trigger,           \* pagination/state.rs: reload_trigger
    prev_clear_state,         \* pagination/hooks: the items effect's value
    last                      \* the latest operation and its arguments

\* The state of the reload trigger of pagination/state.rs.
reloadVars == <<reload_trigger, prev_clear_state>>

\* The pause flag of the cache and the calls that hold it.
pauseVars == <<reactive_loading_active, paused_calls>>

\* The state use_pagination and the list component keep next to the
\* driver's.
paginationVars ==
    <<pagination_item_count, page_count, page_count_error, items_per_page,
      reloadVars, controller_cache, pauseVars>>

vars == <<items, item_count, item_count_result, reload_counter, query,
          current_page, cached_range_to_display, runq, tasks,
          query_changes, driver, loader, overscan_page_count,
          paginationVars, mutations, last>>

cacheVars == <<items, item_count>>

driverVars == <<item_count_result, reload_counter, query, current_page,
                cached_range_to_display, runq, tasks, query_changes, driver,
                loader, overscan_page_count, paginationVars, mutations>>

\* ----------------------------------------------------------------- helpers

None == <<>>

Some(x) == <<x>>

Min(a, b) == IF a <= b THEN a ELSE b

Max(a, b) == IF a >= b THEN a ELSE b

Range(s, e) == [start |-> s, end |-> e]

\* Range::len(): 0 for an empty or inverted range.
RangeLen(r) == IF r.end > r.start THEN r.end - r.start ELSE 0

\* The indices a range holds.
Indices(r) == {i \in 0..(r.end - 1) : i >= r.start}

\* ---------------------------------------------------------------- ItemState

Placeholder == <<"Placeholder">>

Loading == <<"Loading">>

Loaded(v) == <<"Loaded", v>>

Error(e) == <<"Error", e>>

\* The state of Rust index i of a Vec<ItemState>.
At(its, i) == its[i + 1]

\* -------------------------------------------------------------------- Cache

\* Vec::resize(len, ItemState::Placeholder): pad or truncate.
resize(its, len) ==
    [k \in 1..len |-> IF k <= Len(its) THEN its[k] ELSE Placeholder]

\* Cache::grow: never shrinks.
grow(its, len) == IF Len(its) < len THEN resize(its, len) ELSE its

\* Cache::write_loading: resize up to range.end, then skip(start).take(len).
write_loading(its, range) ==
    LET grown == IF range.end > Len(its) THEN resize(its, range.end) ELSE its
    IN  [k \in 1..Len(grown) |->
            IF k - 1 >= range.start /\ k - 1 < range.start + RangeLen(range)
            THEN Loading ELSE grown[k]]

\* An Ok arm that forgets skip(range.start): the zip starts at row 0.
write_loaded_ok_unskipped(its, vals, range) ==
    LET grown == IF range.end > Len(its) THEN resize(its, range.end) ELSE its
    IN  [k \in 1..Len(grown) |->
            IF k <= Len(vals) THEN Loaded(vals[k]) ELSE grown[k]]

\* Cache::write_loaded, Ok arm: grow to range.end, then zip the rows from
\* range.start on with the loaded items (the shorter of the two ends the zip).
write_loaded_ok(its, vals, range) ==
    LET grown == IF range.end > Len(its) THEN resize(its, range.end) ELSE its
    IN  [k \in 1..Len(grown) |->
            IF k - 1 >= range.start /\ k - 1 - range.start < Len(vals)
            THEN Loaded(vals[k - range.start]) ELSE grown[k]]

\* An Err arm that puts the rows back to Placeholder, to be loaded again.
write_loaded_err_as_placeholder(its, error, requested_load_range) ==
    LET range == Range(requested_load_range.start,
                       Min(requested_load_range.end, Len(its)))
    IN  IF range.start >= range.end THEN its
        ELSE [k \in 1..Len(its) |-> Placeholder]

\* Cache::write_loaded, Err arm: the clamped range only decides the early
\* return; the loop runs over iter_unkeyed(), i.e. over every row.
write_loaded_err(its, error, requested_load_range) ==
    LET range == Range(requested_load_range.start,
                       Min(requested_load_range.end, Len(its)))
    IN  IF range.start >= range.end THEN its
        ELSE [k \in 1..Len(its) |-> Error(error)]

\* A predicate that also takes a Loading entry for one to load.
do_load_predicate_or_loading(item) == item = Placeholder \/ item = Loading

do_load_predicate(item) == item = Placeholder

\* A search that ends at the last matching element instead of the first.
position_from_back(slice) ==
    LET hits == {k \in 1..Len(slice) : do_load_predicate(slice[k])}
    IN  IF hits = {} THEN None
        ELSE Some((CHOOSE k \in hits : \A j \in hits : k >= j) - 1)

\* Iterator::position over a slice: offset of the first matching element.
position(slice) ==
    LET hits == {k \in 1..Len(slice) : do_load_predicate(slice[k])}
    IN  IF hits = {} THEN None
        ELSE Some((CHOOSE k \in hits : \A j \in hits : k <= j) - 1)

\* Iterator::rposition over a slice: offset of the last matching element.
rposition(slice) ==
    LET hits == {k \in 1..Len(slice) : do_load_predicate(slice[k])}
    IN  IF hits = {} THEN None
        ELSE Some((CHOOSE k \in hits : \A j \in hits : k >= j) - 1)

\* Cache::missing_range.
missing_range(its, count, range_to_load) ==
    IF range_to_load.end <= range_to_load.start THEN None
    ELSE IF range_to_load.start >= Len(its) THEN Some(range_to_load)
    ELSE
      LET existing_range_end == Min(Len(its), range_to_load.end)
          slice == SubSeq(its, range_to_load.start + 1, existing_range_end)
          pos   == position(slice)
          start == (IF pos = None THEN Len(slice) ELSE pos[1])
                       + range_to_load.start
          rpos  == rposition(slice)
      IN  IF range_to_load.end < Len(its) /\ rpos = None THEN None
          ELSE
            LET end0 == IF range_to_load.end >= Len(its)
                        THEN range_to_load.end
                        ELSE rpos[1] + range_to_load.start + 1
                end  == IF count # None THEN Min(end0, count[1]) ELSE end0
            IN  IF end <= start THEN None
                ELSE Some(Range(start,
                        IF count = None THEN Max(end, range_to_load.end)
                        ELSE Min(Max(end, range_to_load.end), count[1])))

\* A clear that empties the vector instead of filling it (Vec::clear).
clear_truncating(its) == <<>>

\* Cache::clear: fill(Placeholder), item_count = None; the length is kept.
clear(its) == [k \in 1..Len(its) |-> Placeholder]

\* Cache::new(): is_reactive_loading_active is Signal::stored(true) and the
\* pause and resume callbacks do nothing.
is_reactive_loading_active == TRUE

\* Cache::update_item: the slot becomes Loaded(new).
update_item(its, index, new) == [its EXCEPT ![index + 1] = Loaded(new)]

\* A removal that drops the last entry, whatever the index.
remove_item_last(its, index) == SubSeq(its, 1, Len(its) - 1)

\* Cache::remove_item: Vec::remove(index).
remove_item(its, index) ==
    [k \in 1..(Len(its) - 1) |-> IF k <= index THEN its[k] ELSE its[k + 1]]

\* Cache::insert_item: Vec::insert(index, Loaded(new)).
insert_item(its, index, new) ==
    [k \in 1..(Len(its) + 1) |->
        IF k <= index THEN its[k]
        ELSE IF k = index + 1 THEN Loaded(new) ELSE its[k - 1]]

\* The item count after remove_item (by = -1) or insert_item (by = 1): a
\* known count moves with the cache, an unknown one stays unknown.
adjusted_count(count, by) ==
    IF count = None THEN None ELSE Some(count[1] + by)

\* tests::test_missing_range: the unit test's cache states and assertions.
test_missing_range ==
    LET new     == <<>>
        loaded  == write_loaded_ok(new, [k \in 1..5 |-> k - 1], Range(0, 5))
        loading == write_loading(loaded, Range(5, 9))
    IN  /\ missing_range(new, None, Range(0, 10)) = Some(Range(0, 10))
        /\ missing_range(new, None, Range(5, 10)) = Some(Range(5, 10))
        /\ missing_range(loaded, None, Range(0, 10)) = Some(Range(5, 10))
        /\ missing_range(loaded, None, Range(5, 10)) = Some(Range(5, 10))
        /\ missing_range(loaded, None, Range(5, 20)) = Some(Range(5, 20))
        /\ missing_range(loading, None, Range(0, 10)) = Some(Range(9, 10))
        /\ missing_range(loading, None, Range(5, 10)) = Some(Range(9, 10))
        /\ missing_range(loading, None, Range(5, 20)) = Some(Range(9, 20))

\* ---------------------------------------------------------- InternalLoader

\* L::CHUNK_SIZE of a PaginatedLoader: its page size.
PaginatedChunkSize == Some(PAGE_ITEM_COUNT)

\* InternalLoader::CHUNK_SIZE of a loader shape.  ExactLoader keeps the
\* default None; the paginated impl takes L::CHUNK_SIZE.
CHUNK_SIZE(kind) ==
    IF kind = "Paginated" THEN PaginatedChunkSize ELSE None

\* usize::div_ceil
div_ceil(a, b) == (a + b - 1) \div b

\* A correction that rounds the end down like the start.
chunk_corrected_end_floored(chunk, range) ==
    IF chunk # None
    THEN LET chunk_size == chunk[1]
         IN  Range((range.start \div chunk_size) * chunk_size,
                   (range.end \div chunk_size) * chunk_size)
    ELSE range

\* InternalLoader::load_items, the if-let on Self::CHUNK_SIZE: the range is
\* rounded outward to chunk boundaries, or kept when there is no chunk size.
chunk_corrected(chunk, range) ==
    IF chunk # None
    THEN LET chunk_size == chunk[1]
         IN  Range((range.start \div chunk_size) * chunk_size,
                   div_ceil(range.end, chunk_size) * chunk_size)
    ELSE range

\* InternalLoader::load_items: the range handed to load_items_inner.
corrected_range(kind, range) == chunk_corrected(CHUNK_SIZE(kind), range)

\* A normalisation that takes a page count for an item count.
paginated_item_count_pages_as_items(count) ==
    IF count[1] = "Ok" /\ count[2] # None
    THEN <<"Ok", <<count[2][1][2]>>>>
    ELSE count

\* InternalLoader<PaginatedLoaderMarker>::item_count: the answer of
\* PaginatedLoader::count, <<"Items", n>> or <<"Pages", n>> when known,
\* as a number of items; None and an error pass through.
paginated_item_count(count) ==
    IF count[1] = "Ok" /\ count[2] # None
    THEN LET c == count[2][1]
         IN  <<"Ok", <<IF c[1] = "Items" THEN c[2]
                       ELSE c[2] * PAGE_ITEM_COUNT>>>>
    ELSE count

\* The items the data source holds for the indices [s, e) under query q.
SourceItems(q, s, e) ==
    LET hi == Min(e, SourceLen(q))
    IN  [k \in 1..(IF hi > s THEN hi - s ELSE 0) |-> Item(q, s + k - 1)]

\* PaginatedLoader::load_page of the modelled source: the items of one page.
load_page(page_index, q) ==
    SourceItems(q, page_index * PAGE_ITEM_COUNT,
                (page_index + 1) * PAGE_ITEM_COUNT)

\* The two debug assertions of the paginated load_items_inner.
PageAssertions(range) ==
    /\ range.start % PAGE_ITEM_COUNT = 0
    /\ range.end - range.start = PAGE_ITEM_COUNT

\* load_items_inner, Ok result, per loader shape.
\*   Paginated: load_page(start / PAGE_ITEM_COUNT), range start..start+len.
\*   Exact: the source's items of the range; the range is the requested one.
load_items_inner(kind, range, q) ==
    IF kind = "Paginated"
    THEN LET vals == load_page(range.start \div PAGE_ITEM_COUNT, q)
         IN  [items |-> vals,
              range |-> Range(range.start, range.start + Len(vals))]
    ELSE [items |-> SourceItems(q, range.start, range.end), range |-> range]

\* The errors a loader call can end in.
LoaderErrors == {1}

\* Result<Option<usize>, E>
OkR(v) == <<"Ok", v>>

ErrR(e) == <<"Err", <<e>>>>

\* What item_count(query) can resolve to: the source's count, unknown, or an
\* error.
CountOutcomes(q) ==
    {OkR(Some(SourceLen(q))), OkR(None)} \cup {ErrR(e) : e \in LoaderErrors}

\* ------------------------------------------------------------ use_pagination

saturating_sub(a, b) == IF a >= b THEN a - b ELSE 0

\* use_pagination: start_index_to_load .. end_index_to_load
range_to_load ==
    Range(saturating_sub(current_page, overscan_page_count)
              * item_count_per_page,
          (current_page + overscan_page_count) * item_count_per_page)

\* use_pagination: range_to_display
range_to_display ==
    Range(current_page * item_count_per_page,
          current_page * item_count_per_page + item_count_per_page)

\* The page count as the number of full pages.
page_count_for_floored(count, per_page) == count \div per_page

\* use_pagination, the page-count effect: item_count.div_ceil(per_page).
page_count_for(count, per_page) == div_ceil(count, per_page)

\* -------------------------------------------------------- use_load_on_demand

\* A set_item_count that stores a failed count as the count 0.
CountOf_err_as_zero(result) ==
    IF result[1] = "Ok" THEN result[2] ELSE Some(0)

\* The set_item_count closure: the cache's count is result.ok().flatten().
CountOf(result) == IF result[1] = "Ok" THEN result[2] ELSE None

\* An entry of the run queue or of the task bag.
Entry(kind, missing, gen, q) ==
    [kind |-> kind, missing |-> missing, gen |-> gen, q |-> q]

\* The three effects of use_load_on_demand, in creation order.
ClearEntry == Entry("clear_effect", Range(0, 0), 0, 0)

CountEntry == Entry("count_effect", Range(0, 0), 0, 0)

ItemsEntry == Entry("items_effect", Range(0, 0), 0, 0)

\* The two effects of use_pagination: the one that derives page_count and
\* the one that reads item_count_result.
PageCountEntry == Entry("page_count_effect", Range(0, 0), 0, 0)

CountResultEntry == Entry("count_result_effect", Range(0, 0), 0, 0)

\* A task as spawn_local leaves it: its future has not been polled yet.
SpawnedCount == Entry("count", Range(0, 0), 0, 0)

SpawnedItems(missing) == Entry("items", missing, 0, 0)

\* The revisions of the driver.
Drivers == {"hook", "use_load_on_demand"}

\* The effects the query signal wakes, in the order they subscribed: in
\* hook.rs the count effect and the clear effect, else the clear effect.
QuerySubscribers ==
    IF driver = "hook" THEN <<CountEntry, ClearEntry>> ELSE <<ClearEntry>>

\* A signal notifies a subscribed effect: it is woken unless it already is.
Notify(queue, e) ==
    IF \E k \in 1..Len(queue) : queue[k] = e THEN queue ELSE Append(queue, e)

\* The tasks alive: suspended at their await, or spawned and not yet polled.
Alive ==
    BagCardinality(tasks)
        + Cardinality({k \in 1..Len(runq) : runq[k].kind \in {"count", "items"}})

\* A handler writes the query signal: the invalidation effect is woken.
SetQuery(q) ==
    /\ runq = <<>>
    /\ mutations = 0
    /\ q # query
    /\ query_changes < MaxReloads
    /\ Alive + 2 <= MaxTasks
    /\ query' = q
    /\ query_changes' = query_changes + 1
    /\ runq' = QuerySubscribers
    /\ last' = [op |-> "set_query"]
    /\ UNCHANGED <<items, item_count, item_count_result, reload_counter,
                   current_page, cached_range_to_display, tasks, driver,
                   loader,
                   overscan_page_count>>
    /\ UNCHANGED <<paginationVars, mutations>>

\* A handler writes PaginationState::current_page: both range memos change
\* and wake the items-load effect.
GotoPage(p) ==
    /\ runq = <<>>
    /\ mutations = 0
    /\ p # current_page
    /\ Alive + 1 <= MaxTasks
    /\ current_page' = p
    /\ runq' = <<ItemsEntry>>
    /\ last' = [op |-> "goto_page"]
    /\ UNCHANGED <<items, item_count, item_count_result, reload_counter,
                   query, cached_range_to_display, tasks, query_changes,
                   driver, loader,
                   overscan_page_count>>
    /\ UNCHANGED <<paginationVars, mutations>>

\* One handler writes the page and then the query (a new query that resets
\* the page): the items-load effect is woken before the invalidation effect.
GotoPageAndSetQuery(p, q) ==
    /\ runq = <<>>
    /\ mutations = 0
    /\ p # current_page
    /\ q # query
    /\ query_changes < MaxReloads
    /\ Alive + 3 <= MaxTasks
    /\ current_page' = p
    /\ query' = q
    /\ query_changes' = query_changes + 1
    /\ runq' = <<ItemsEntry>> \o QuerySubscribers
    /\ last' = [op |-> "goto_page_set_query"]
    /\ UNCHANGED <<items, item_count, item_count_result, reload_counter,
                   cached_range_to_display, tasks, driver, loader,
                   overscan_page_count>>
    /\ UNCHANGED <<paginationVars, mutations>>

\* The "Clear cache" effect: Cache::clear (which wakes the items-load effect,
\* a reader of the cache), then the reload counter advances (wrapping_add;
\* the bound keeps it far from usize::MAX) and wakes its two readers.  In
\* hook.rs a Trigger takes the counter's place and only the items-load
\* effect tracks it.
ClearEffect ==
    /\ runq # <<>>
    /\ Head(runq) = ClearEntry
    /\ items' = clear(items)
    /\ item_count' = None
    /\ IF driver = "hook"
       THEN /\ reload_counter' = reload_counter
            /\ runq' = Notify(Tail(runq), ItemsEntry)
       ELSE /\ reload_counter' = reload_counter + 1
            /\ runq' = Notify(Notify(Tail(runq), ItemsEntry), CountEntry)
    /\ last' = [op |-> "clear"]
    /\ UNCHANGED <<item_count_result, query, current_page,
                   cached_range_to_display, tasks, query_changes, driver,
                   loader,
                   overscan_page_count>>
    /\ UNCHANGED <<paginationVars, mutations>>

\* The "Load item count" effect: it only spawns the task.
CountEffect ==
    /\ runq # <<>>
    /\ Head(runq) = CountEntry
    /\ runq' = Append(Tail(runq), SpawnedCount)
    /\ last' = [op |-> "count_effect"]
    /\ UNCHANGED <<items, item_count, item_count_result, reload_counter,
                   query, current_page, cached_range_to_display, tasks,
                   query_changes, driver, loader, overscan_page_count>>
    /\ UNCHANGED <<paginationVars, mutations>>

\* The display range published without the cut at the item count.
DisplayRange_unclamped(count) == range_to_display

\* The display range the items-load effect publishes.
DisplayRange(count) ==
    Range(range_to_display.start,
          IF count = None THEN range_to_display.end
          ELSE Min(range_to_display.end, count[1]))

\* The "Load items" effect.  With a missing range it marks it Loading (a
\* write to the cache it reads, so it wakes itself) and spawns the load.
ItemsEffect ==
    /\ runq # <<>>
    /\ Head(runq) = ItemsEntry
    /\ LET missing == missing_range(items, item_count, range_to_load)
       IN  IF missing # None
           THEN /\ items' = write_loading(items, missing[1])
                /\ runq' = Append(Notify(Tail(runq), ItemsEntry),
                                  SpawnedItems(missing[1]))
                /\ last' = [op |-> "items_effect", missing |-> missing]
           ELSE /\ items' = items
                /\ runq' = Tail(runq)
                /\ last' = [op |-> "items_effect", missing |-> missing]
    /\ cached_range_to_display' = DisplayRange(item_count)
    /\ UNCHANGED <<item_count, item_count_result, reload_counter, query,
                   current_page, tasks, query_changes, driver, loader,
                   overscan_page_count>>
    /\ UNCHANGED <<paginationVars, mutations>>

\* The first poll of a spawned task, up to its await: it captures the reload
\* counter, reads the query and calls the loader.
StartTask ==
    /\ runq # <<>>
    /\ Head(runq).kind \in {"count", "items"}
    /\ tasks' = tasks (+) SetToBag({[Head(runq) EXCEPT
                                       !.gen = reload_counter,
                                       !.q = query]})
    /\ runq' = Tail(runq)
    /\ last' = [op |-> "start", kind |-> Head(runq).kind]
    /\ UNCHANGED <<items, item_count, item_count_result, reload_counter,
                   query, current_page, cached_range_to_display,
                   query_changes, driver, loader,
                   overscan_page_count>>
    /\ UNCHANGED <<paginationVars, mutations>>

\* A resumed task that applies its result whatever the reload counter is.
StillCurrentUnchecked(t) == TRUE

\* The check a resumed task makes before it applies its result: the reload
\* counter still has the value captured.  hook.rs makes no check.
StillCurrent(t) == driver = "hook" \/ t.gen = reload_counter

\* The count-load resumes with the loader's answer.
CompleteCount(t, count) ==
    /\ runq = <<>>
    /\ BagIn(t, tasks)
    /\ t.kind = "count"
    /\ count \in CountOutcomes(t.q)
    /\ tasks' = tasks (-) SetToBag({t})
    /\ IF StillCurrent(t)
       THEN /\ item_count' = CountOf(count)
            /\ item_count_result' = count
            /\ runq' = <<ItemsEntry, CountResultEntry>>
       ELSE UNCHANGED <<item_count, item_count_result, runq>>
    /\ last' = [op |-> "count_done", stale |-> t.gen # reload_counter,
                q |-> t.q]
    /\ UNCHANGED <<items, reload_counter, query, current_page,
                   cached_range_to_display, query_changes, driver, loader,
                   overscan_page_count>>
    /\ UNCHANGED <<paginationVars, mutations>>

\* What load_items can resolve to for a started items task.
ItemsOutcomes(t) ==
    {<<"Ok", load_items_inner(loader, corrected_range(loader, t.missing), t.q)>>}
        \cup {<<"Err", e>> : e \in LoaderErrors}

\* The cache after the continuation of an items-load that is still valid.
AppliedItems(its, t, result) ==
    IF result[1] = "Ok"
    THEN write_loaded_ok(its, result[2].items, result[2].range)
    ELSE write_loaded_err(its, result[2], t.missing)

\* Whether a still valid items-load result signals the end of the data.
EndOfData(t, result) ==
    result[1] = "Ok" /\ result[2].range.end < t.missing.end

\* The continuation of an items-load whose reload counter is still current.
ApplyItems(t, result) ==
    /\ IF EndOfData(t, result)
       THEN /\ item_count' = Some(result[2].range.end)
            /\ item_count_result' = OkR(Some(result[2].range.end))
       ELSE UNCHANGED <<item_count, item_count_result>>
    /\ items' = AppliedItems(items, t, result)

\* The items-load resumes with the loader's answer.  A write to the cache
\* wakes the items-load effect.
CompleteItems(t, result) ==
    /\ runq = <<>>
    /\ BagIn(t, tasks)
    /\ t.kind = "items"
    /\ result \in ItemsOutcomes(t)
    /\ tasks' = tasks (-) SetToBag({t})
    /\ IF StillCurrent(t)
       THEN /\ ApplyItems(t, result)
            /\ runq' = IF EndOfData(t, result)
                       THEN <<ItemsEntry, CountResultEntry>>
                       ELSE IF items' # items THEN <<ItemsEntry>> ELSE <<>>
       ELSE UNCHANGED <<items, item_count, item_count_result, runq>>
    /\ last' = [op |-> "items_done", stale |-> t.gen # reload_counter,
                q |-> t.q, ok |-> result[1] = "Ok"]
    /\ UNCHANGED <<reload_counter, query, current_page,
                   cached_range_to_display, query_changes, driver, loader,
                   overscan_page_count>>
    /\ UNCHANGED <<paginationVars, mutations>>

\* format!("{err:?}") of a loader error: the Debug text of its value.
debug_fmt(e) == ToString(e)

\* The message use_pagination stores in page_count_error for a count result
\* that is not Ok(Some(_)).
count_error_message(result) ==
    IF result[1] = "Ok"
    THEN "Data source didn't provide an item/page count"
    ELSE "Error fetching item/page count: " \o debug_fmt(result[2][1])

\* use_pagination, the effect on item_count_result: a known count is
\* stored in the hook's item_count signal (which wakes the page-count
\* effect) and clears page_count_error; an unknown count and an error set
\* page_count_error.
CountResultEffect ==
    /\ runq # <<>>
    /\ Head(runq) = CountResultEntry
    /\ IF item_count_result[1] = "Ok" /\ item_count_result[2] # None
       THEN /\ pagination_item_count' = item_count_result[2]
            /\ page_count_error' = None
            /\ runq' = Notify(Tail(runq), PageCountEntry)
       ELSE /\ pagination_item_count' = pagination_item_count
            /\ page_count_error' =
                  Some(count_error_message(item_count_result))
            /\ runq' = Tail(runq)
    /\ last' = [op |-> "count_result_effect"]
    /\ UNCHANGED <<items, item_count, item_count_result, reload_counter,
                   query, current_page, cached_range_to_display, tasks,
                   query_changes, driver, loader, overscan_page_count,
                   page_count, items_per_page, mutations, reloadVars,
                   controller_cache,
                   pauseVars>>

\* use_pagination, the page-count effect: a known item count sets
\* page_count; while it is unknown page_count is left as it is.
PageCountEffect ==
    /\ runq # <<>>
    /\ Head(runq) = PageCountEntry
    /\ page_count' =
          IF pagination_item_count # None
          THEN Some(page_count_for(pagination_item_count[1],
                                   items_per_page))
          ELSE page_count
    /\ runq' = Tail(runq)
    /\ last' = [op |-> "page_count_effect", from |-> page_count]
    /\ UNCHANGED <<items, item_count, item_count_result, reload_counter,
                   query, current_page, cached_range_to_display, tasks,
                   query_changes, driver, loader, overscan_page_count,
                   pagination_item_count, page_count_error, items_per_page,
                   mutations, reloadVars, controller_cache,
                   pauseVars>>

\* The item a caller of the mutation API passes.
LocalItem == Item(0, 0)

\* The indices the list component holds a WindowItem for: the Loaded items
\* of the published window.  Its update, remove, insert_before and
\* insert_after are the callers of the mutation API.
WindowItems ==
    {index \in Indices(cached_range_to_display) :
        index < Len(items) /\ At(items, index)[1] = "Loaded"}

\* What a call of the mutation API leaves besides the cache: the write to
\* the cache wakes the items-load effect while reactive loading is active.
Mutated(op) ==
    /\ runq = <<>>
    /\ mutations < MaxMutations
    /\ Alive + 1 <= MaxTasks
    /\ mutations' = mutations + 1
    /\ runq' = IF is_reactive_loading_active THEN <<ItemsEntry>> ELSE <<>>
    /\ last' = [op |-> op]
    /\ UNCHANGED <<item_count_result, reload_counter, query, current_page,
                   cached_range_to_display, tasks, query_changes, driver,
                   loader, overscan_page_count, paginationVars>>

\* ItemWindow::update_item(index, new)
UpdateItem(index, new) ==
    /\ index < Len(items)
    /\ items' = update_item(items, index, new)
    /\ item_count' = item_count
    /\ Mutated("update_item")

\* ItemWindow::remove_item(index)
RemoveItem(index) ==
    /\ index < Len(items)
    /\ item_count # Some(0)
    /\ items' = remove_item(items, index)
    /\ item_count' = adjusted_count(item_count, -1)
    /\ Mutated("remove_item")

\* ItemWindow::insert_item(index, new)
InsertItem(index, new) ==
    /\ index <= Len(items)
    /\ items' = insert_item(items, index, new)
    /\ item_count' = adjusted_count(item_count, 1)
    /\ Mutated("insert_item")

Init ==
    /\ items = <<>>
    /\ item_count = None
    /\ item_count_result = OkR(None)
    /\ reload_counter = 0
    /\ query = 1
    /\ current_page = 0
    /\ cached_range_to_display = Range(0, 0)
    /\ driver \in Drivers
    /\ runq = IF driver = "hook"
              THEN <<PageCountEntry, CountEntry, ClearEntry, ItemsEntry,
                     CountResultEntry>>
              ELSE <<PageCountEntry, ClearEntry, CountEntry, ItemsEntry,
                     CountResultEntry>>
    /\ query_changes = 0
    /\ tasks = EmptyBag
    /\ loader \in LoaderKinds
    /\ overscan_page_count \in Overscans
    /\ pagination_item_count = None
    /\ page_count = None
    /\ page_count_error = None
    /\ items_per_page = item_count_per_page
    /\ controller_cache = TRUE
    /\ reactive_loading_active = TRUE
    /\ paused_calls = <<>>
    /\ mutations = 0
    /\ reload_trigger = 0
    /\ prev_clear_state = None
    /\ last = [op |-> "new"]

Next ==
    \/ \E q \in Queries : SetQuery(q)
    \/ \E p \in 0..MaxPage : GotoPage(p)
    \/ \E p \in 0..MaxPage : \E q \in Queries : GotoPageAndSetQuery(p, q)
    \/ ClearEffect
    \/ CountEffect
    \/ ItemsEffect
    \/ StartTask
    \/ \E t \in BagToSet(tasks) :
          \E c \in CountOutcomes(t.q) : CompleteCount(t, c)
    \/ \E t \in BagToSet(tasks) :
          \E r \in ItemsOutcomes(t) : CompleteItems(t, r)
    \/ CountResultEffect
    \/ PageCountEffect
    \/ \E index \in WindowItems : UpdateItem(index, LocalItem)
    \/ \E index \in WindowItems : RemoveItem(index)
    \/ \E index \in WindowItems : \E at \in {index, index + 1} :
          InsertItem(at, LocalItem)

Spec == Init /\ [][Next]_vars

\* --------------------------------------------- the driver under fair scheduling

\* What the executor and the loaders do: queued effects and tasks run, and
\* every loader call answers.
SystemNext ==
    \/ ClearEffect
    \/ CountEffect
    \/ ItemsEffect
    \/ StartTask
    \/ \E t \in BagToSet(tasks) :
          \E c \in CountOutcomes(t.q) : CompleteCount(t, c)
    \/ \E t \in BagToSet(tasks) :
          \E r \in ItemsOutcomes(t) : CompleteItems(t, r)
    \/ CountResultEffect
    \/ PageCountEffect

\* What the user does: the query and the page are set.
Navigation ==
    \/ \E q \in Queries : SetQuery(q)
    \/ \E p \in 0..MaxPage : GotoPage(p)
    \/ \E p \in 0..MaxPage : \E q \in Queries : GotoPageAndSetQuery(p, q)

\* The driver of use_load_on_demand.rs.
InitLive == Init /\ driver = "use_load_on_demand"

NextLive == Navigation \/ SystemNext

\* The executor serves its queue and every loader call completes: a step of
\* the system that stays possible is taken.
SpecLive == InitLive /\ [][NextLive]_vars /\ WF_vars(SystemNext)

\* ------------------------------------------------- the Cache API on its own

\* The ranges a cache call names.
Ranges == {r \in [start : 0..MaxLen, end : 0..MaxLen] : r.start <= r.end}

\* The counts a caller stores in CacheInner::item_count.
Counts == {None} \cup {Some(n) : n \in 0..MaxLen}

\* Cache::write_loading(range)
WriteLoading(range) ==
    /\ items' = write_loading(items, range)
    /\ last' = [op |-> "write_loading"]
    /\ UNCHANGED <<item_count, driverVars>>

\* Cache::write_loaded(Ok(LoadedItems { items, range }), requested) with
\* the items the source holds for the range under query q: as many as the
\* range holds, or fewer where the source ends inside it.
WriteLoadedOk(q, range, requested) ==
    /\ items' = write_loaded_ok(items, SourceItems(q, range.start, range.end),
                                range)
    /\ last' = [op |-> "write_loaded_ok", range |-> range,
                vals |-> SourceItems(q, range.start, range.end)]
    /\ UNCHANGED <<item_count, driverVars>>

\* Cache::write_loaded(Err(error), requested)
WriteLoadedErr(error, requested) ==
    /\ items' = write_loaded_err(items, error, requested)
    /\ last' = [op |-> "write_loaded_err", range |-> requested,
                error |-> error]
    /\ UNCHANGED <<item_count, driverVars>>

\* Cache::clear()
Clear ==
    /\ items' = clear(items)
    /\ item_count' = None
    /\ last' = [op |-> "clear",
                held |-> {items[k] : k \in 1..Len(items)} \ {Placeholder} # {},
                counted |-> item_count # None]
    /\ UNCHANGED driverVars

\* The store field item_count is set (as set_item_count does).
SetItemCount(count) ==
    /\ item_count' = count
    /\ last' = [op |-> "set_item_count"]
    /\ UNCHANGED <<items, driverVars>>

\* Cache::missing_range(range_to_load): a query, its answer is recorded.
MissingRange(range) ==
    /\ last' = [op |-> "missing_range", range |-> range,
                result |-> missing_range(items, item_count, range)]
    /\ UNCHANGED <<items, item_count, driverVars>>

\* Cache::new(): no items, count unknown; the driver is not running.
InitCache ==
    /\ items = <<>>
    /\ item_count = None
    /\ item_count_result = OkR(None)
    /\ reload_counter = 0
    /\ query = 1
    /\ current_page = 0
    /\ cached_range_to_display = Range(0, 0)
    /\ runq = <<>>
    /\ tasks = EmptyBag
    /\ query_changes = 0
    /\ driver = "use_load_on_demand"
    /\ loader = "Exact"
    /\ overscan_page_count = 1
    /\ pagination_item_count = None
    /\ page_count = None
    /\ page_count_error = None
    /\ items_per_page = item_count_per_page
    /\ controller_cache = TRUE
    /\ reactive_loading_active = TRUE
    /\ paused_calls = <<>>
    /\ mutations = 0
    /\ reload_trigger = 0
    /\ prev_clear_state = None
    /\ last = [op |-> "new"]

NextCache ==
    \/ \E range \in Ranges : WriteLoading(range)
    \/ \E q \in Queries : \E range \in Ranges :
          WriteLoadedOk(q, range, range)
    \/ \E error \in LoaderErrors : \E requested \in Ranges :
          WriteLoadedErr(error, requested)
    \/ Clear
    \/ \E count \in Counts : SetItemCount(count)
    \/ \E range \in Ranges : MissingRange(range)

SpecCache == InitCache /\ [][NextCache]_vars

\* ------------------------------ the Cache API with any LoadedItems written
\* The calls of SpecCache, and write_loaded with LoadedItems built by a
\* Loader: as many items as it chose to return, next to the range it
\* reports.

\* The items a loader returns as rows range.start, range.start + 1, ...
ReturnedItems(q, range, n) == [k \in 1..n |-> Item(q, range.start + k - 1)]

\* Cache::write_loaded(Ok(LoadedItems { items, range }), requested) with n
\* items: fewer than the range holds, as many, or more.
WriteLoadedItems(q, range, n) ==
    /\ items' = write_loaded_ok(items, ReturnedItems(q, range, n), range)
    /\ last' = [op |-> "write_loaded_items", range |-> range, n |-> n]
    /\ UNCHANGED <<item_count, driverVars>>

NextWriteLoaded ==
    \/ NextCache
    \/ \E q \in Queries : \E range \in Ranges : \E n \in 0..MaxLen :
          WriteLoadedItems(q, range, n)

SpecWriteLoaded == InitCache /\ [][NextWriteLoaded]_vars

\* ------------------------------------ the Cache API with the mutation API
\* The calls of SpecCache and Cache::update_item / remove_item / insert_item
\* with every index the Vec accepts.

\* Cache::update_item(index, new)
CacheUpdateItem(index, new) ==
    /\ index < Len(items)
    /\ items' = update_item(items, index, new)
    /\ item_count' = item_count
    /\ last' = [op |-> "cache_update_item", index |-> index, new |-> new]
    /\ UNCHANGED driverVars

\* Cache::remove_item(index); a known count covers the entry removed.
CacheRemoveItem(index) ==
    /\ index < Len(items)
    /\ item_count # Some(0)
    /\ items' = remove_item(items, index)
    /\ item_count' = adjusted_count(item_count, -1)
    /\ last' = [op |-> "cache_remove_item", index |-> index]
    /\ UNCHANGED driverVars

\* Cache::insert_item(index, new), up to MaxLen entries.
CacheInsertItem(index, new) ==
    /\ index <= Len(items)
    /\ Len(items) < MaxLen
    /\ items' = insert_item(items, index, new)
    /\ item_count' = adjusted_count(item_count, 1)
    /\ last' = [op |-> "cache_insert_item", index |-> index, new |-> new]
    /\ UNCHANGED driverVars

NextMutation ==
    \/ NextCache
    \/ \E index \in 0..MaxLen : CacheUpdateItem(index, LocalItem)
    \/ \E index \in 0..MaxLen : CacheRemoveItem(index)
    \/ \E index \in 0..MaxLen : CacheInsertItem(index, LocalItem)

SpecMutation == InitCache /\ [][NextMutation]_vars

\* ------------------------------------ the CacheController, with any index
\* The three methods of CacheController called before and after
\* init_with_item_window and with indices inside and outside the cache.  A
\* panic ends the behaviour, and so does a wrapped item count: what follows
\* it is not followed.

\* usize::MAX stands as the largest integer the checker holds; every index
\* and count of the model lies far below it.
usize_MAX == 2147483647

\* The builds: overflow checks on (debug) or off (release).
Builds == {"debug", "release"}

ControllerOps ==
    {"controller_update_item", "controller_remove_item",
     "controller_insert_item"}

\* The call before has panicked or left a wrapped count.
Aborted ==
    last.op \in ControllerOps /\ last.outcome \in {"panic", "wrapped"}

\* CacheController::init_with_item_window
InitWithItemWindow ==
    /\ ~Aborted
    /\ controller_cache' = TRUE
    /\ last' = [op |-> "init_with_item_window"]
    /\ UNCHANGED <<items, item_count, item_count_result, reload_counter,
                   query, current_page, cached_range_to_display, runq,
                   tasks, query_changes, driver, loader,
                   overscan_page_count, pagination_item_count, page_count,
                   page_count_error, items_per_page, reloadVars, mutations,
                   pauseVars>>

\* CacheController::update_item(index, new): without a cache the call is
\* logged; with one, the slot is written, and indexing a slot the Vec does
\* not have panics.
ControllerUpdateItem(index, new) ==
    /\ ~Aborted
    /\ IF ~controller_cache
       THEN /\ items' = items
            /\ last' = [op |-> "controller_update_item", index |-> index,
                        outcome |-> "logged"]
       ELSE IF index < Len(items)
       THEN /\ items' = update_item(items, index, new)
            /\ last' = [op |-> "controller_update_item", index |-> index,
                        outcome |-> "applied"]
       ELSE /\ items' = items
            /\ last' = [op |-> "controller_update_item", index |-> index,
                        outcome |-> "panic"]
    /\ UNCHANGED <<item_count, driverVars>>

\* CacheController::remove_item(index): Vec::remove panics for an index
\* beyond the last entry; after the removal a known count of 0 makes
\* len - 1 overflow, which panics in a debug build and wraps to usize::MAX
\* in a release build.
ControllerRemoveItem(index, build) ==
    /\ ~Aborted
    /\ IF ~controller_cache
       THEN /\ UNCHANGED <<items, item_count>>
            /\ last' = [op |-> "controller_remove_item", index |-> index,
                        outcome |-> "logged"]
       ELSE IF index >= Len(items)
       THEN /\ UNCHANGED <<items, item_count>>
            /\ last' = [op |-> "controller_remove_item", index |-> index,
                        outcome |-> "panic"]
       ELSE IF item_count # Some(0)
       THEN /\ items' = remove_item(items, index)
            /\ item_count' = adjusted_count(item_count, -1)
            /\ last' = [op |-> "controller_remove_item", index |-> index,
                        outcome |-> "applied"]
       ELSE /\ items' = remove_item(items, index)
            /\ item_count' = IF build = "debug" THEN item_count
                             ELSE Some(usize_MAX)
            /\ last' = [op |-> "controller_remove_item", index |-> index,
                        outcome |-> IF build = "debug" THEN "panic"
                                    ELSE "wrapped"]
    /\ UNCHANGED driverVars

\* CacheController::insert_item(index, new): Vec::insert panics for an
\* index beyond the length.  The cache holds up to MaxLen entries.
ControllerInsertItem(index, new) ==
    /\ ~Aborted
    /\ (controller_cache /\ index <= Len(items)) => Len(items) < MaxLen
    /\ IF ~controller_cache
       THEN /\ UNCHANGED <<items, item_count>>
            /\ last' = [op |-> "controller_insert_item", index |-> index,
                        outcome |-> "logged"]
       ELSE IF index <= Len(items)
       THEN /\ items' = insert_item(items, index, new)
            /\ item_count' = adjusted_count(item_count, 1)
            /\ last' = [op |-> "controller_insert_item", index |-> index,
                        outcome |-> "applied"]
       ELSE /\ UNCHANGED <<items, item_count>>
            /\ last' = [op |-> "controller_insert_item", index |-> index,
                        outcome |-> "panic"]
    /\ UNCHANGED driverVars

\* A CacheController::new() next to a fresh cache.
InitController ==
    /\ items = <<>>
    /\ item_count = None
    /\ item_count_result = OkR(None)
    /\ reload_counter = 0
    /\ query = 1
    /\ current_page = 0
    /\ cached_range_to_display = Range(0, 0)
    /\ runq = <<>>
    /\ tasks = EmptyBag
    /\ query_changes = 0
    /\ driver = "use_load_on_demand"
    /\ loader = "Exact"
    /\ overscan_page_count = 1
    /\ pagination_item_count = None
    /\ page_count = None
    /\ page_count_error = None
    /\ items_per_page = item_count_per_page
    /\ controller_cache = FALSE
    /\ reactive_loading_active = TRUE
    /\ paused_calls = <<>>
    /\ mutations = 0
    /\ reload_trigger = 0
    /\ prev_clear_state = None
    /\ last = [op |-> "new"]

NextController ==
    \/ InitWithItemWindow
    \/ ~Aborted /\ \E range \in Ranges : WriteLoadedOk(1, range, range)
    \/ ~Aborted /\ \E count \in Counts : SetItemCount(count)
    \/ \E index \in 0..(MaxLen + 1) : ControllerUpdateItem(index, LocalItem)
    \/ \E index \in 0..(MaxLen + 1) : \E build \in Builds :
          ControllerRemoveItem(index, build)
    \/ \E index \in 0..(MaxLen + 1) : ControllerInsertItem(index, LocalItem)

SpecController == InitController /\ [][NextController]_vars

\* ------------------------------------------------ the pause flag on its own

\* with_reactive_loading_paused calls are nested at most MaxNesting deep.
MaxNesting == 3

\* The pause callback a driver wires into the cache: the flag
\* is_reactive_loading_active becomes false.
pause(active) == FALSE

\* The resume callback a driver wires into the cache: the flag becomes true.
resume(active) == TRUE

\* A return that resumes whatever the call found.
resume_if_was_active_always(is_active, active) == resume(active)

\* with_reactive_loading_paused after f: if is_active { resume }.
resume_if_was_active(is_active, active) ==
    IF is_active THEN resume(active) ELSE active

\* What the pause flag's operations leave alone.
pauseFrame ==
    <<item_count_result, reload_counter, query, current_page,
      cached_range_to_display, runq, tasks, query_changes, driver, loader,
      overscan_page_count, pagination_item_count, page_count,
      page_count_error, items_per_page, reloadVars, controller_cache,
      mutations>>

\* Cache::pause_reactive_loading, called outside of any paused closure.
PauseReactiveLoading ==
    /\ paused_calls = <<>>
    /\ reactive_loading_active' = pause(reactive_loading_active)
    /\ last' = [op |-> "pause_reactive_loading"]
    /\ UNCHANGED <<items, item_count, paused_calls, pauseFrame>>

\* Cache::resume_reactive_loading, called outside of any paused closure.
ResumeReactiveLoading ==
    /\ paused_calls = <<>>
    /\ reactive_loading_active' = resume(reactive_loading_active)
    /\ last' = [op |-> "resume_reactive_loading"]
    /\ UNCHANGED <<items, item_count, paused_calls, pauseFrame>>

\* with_reactive_loading_paused(f) up to the call of f: is_active is read,
\* loading is paused; f may call with_reactive_loading_paused again.
WithPausedCall ==
    /\ Len(paused_calls) < MaxNesting
    /\ paused_calls' = Append(paused_calls, reactive_loading_active)
    /\ reactive_loading_active' = pause(reactive_loading_active)
    /\ last' = [op |-> "with_reactive_loading_paused_call"]
    /\ UNCHANGED <<items, item_count, pauseFrame>>

\* with_reactive_loading_paused(f) from the return of f: the innermost
\* running call resumes if it had found loading active.
WithPausedReturn ==
    /\ paused_calls # <<>>
    /\ LET is_active == paused_calls[Len(paused_calls)]
       IN  /\ reactive_loading_active' =
                 resume_if_was_active(is_active, reactive_loading_active)
           /\ last' = [op |-> "with_reactive_loading_paused",
                       is_active |-> is_active]
    /\ paused_calls' = SubSeq(paused_calls, 1, Len(paused_calls) - 1)
    /\ UNCHANGED <<items, item_count, pauseFrame>>

\* The flag after a whole with_reactive_loading_paused(f) whose f does not
\* touch the flag.
after_paused_call(active) == resume_if_was_active(active, pause(active))

\* Cache::update_item(index, new) with the pause around the write.
PausedUpdateItem(index, new) ==
    /\ index < Len(items)
    /\ items' = update_item(items, index, new)
    /\ reactive_loading_active' = after_paused_call(reactive_loading_active)
    /\ last' = [op |-> "paused_update_item",
                is_active |-> reactive_loading_active]
    /\ UNCHANGED <<item_count, paused_calls, pauseFrame>>

\* Cache::remove_item(index) with the pause around the removal.
PausedRemoveItem(index) ==
    /\ index < Len(items)
    /\ item_count # Some(0)
    /\ items' = remove_item(items, index)
    /\ item_count' = adjusted_count(item_count, -1)
    /\ reactive_loading_active' = after_paused_call(reactive_loading_active)
    /\ last' = [op |-> "paused_remove_item",
                is_active |-> reactive_loading_active]
    /\ UNCHANGED <<paused_calls, pauseFrame>>

\* Cache::insert_item(index, new) with the pause around the insertion.
PausedInsertItem(index, new) ==
    /\ index <= Len(items)
    /\ Len(items) < MaxLen
    /\ items' = insert_item(items, index, new)
    /\ item_count' = adjusted_count(item_count, 1)
    /\ reactive_loading_active' = after_paused_call(reactive_loading_active)
    /\ last' = [op |-> "paused_insert_item",
                is_active |-> reactive_loading_active]
    /\ UNCHANGED <<paused_calls, pauseFrame>>

NextPause ==
    \/ PauseReactiveLoading
    \/ ResumeReactiveLoading
    \/ WithPausedCall
    \/ WithPausedReturn
    \/ \E index \in 0..MaxLen : PausedUpdateItem(index, LocalItem)
    \/ \E index \in 0..MaxLen : PausedRemoveItem(index)
    \/ \E index \in 0..MaxLen : PausedInsertItem(index, LocalItem)
    \/ \E count \in Counts : SetItemCount(count)

SpecPause == InitCache /\ [][NextPause]_vars

\* ------------------------------------------- the loader layer on its own

\* The ranges the driver passes to load_items: missing ranges are not empty.
LoaderRanges ==
    {r \in [start : 0..MaxIndex, end : 0..MaxIndex] : r.start < r.end}

\* The values of Loader::CHUNK_SIZE.
ChunkSizes == {None} \cup {Some(c) : c \in 1..MaxLen}

\* What PaginatedLoader::count can resolve to.
PaginatedCounts ==
    {OkR(None)} \cup {ErrR(e) : e \in LoaderErrors}
        \cup {OkR(Some(<<kind, n>>)) : kind \in {"Items", "Pages"},
                                       n \in 0..MaxLen}

\* InternalLoader::load_items(range, query) of a loader with the given
\* CHUNK_SIZE: the range load_items_inner is called with is recorded.
LoadItems(chunk, range) ==
    /\ last' = [op |-> "load_items", chunk |-> chunk, range |-> range,
                inner |-> chunk_corrected(chunk, range)]
    /\ UNCHANGED <<items, item_count, driverVars>>

\* InternalLoader::item_count(query) of a PaginatedLoader whose count()
\* resolves to count, in a fresh use_pagination showing per_page items per
\* page: the normalised count and the page count it leads to are recorded.
ItemCount(count, per_page) ==
    /\ last' = [op |-> "item_count", count |-> count, per_page |-> per_page,
                result |-> paginated_item_count(count),
                page_count |->
                    LET n == CountOf(paginated_item_count(count))
                    IN  IF n = None THEN None
                        ELSE Some(page_count_for(n[1], per_page))]
    /\ UNCHANGED <<items, item_count, driverVars>>

NextLoader ==
    \/ \E chunk \in ChunkSizes : \E range \in LoaderRanges :
          LoadItems(chunk, range)
    \/ \E count \in PaginatedCounts : \E per_page \in 1..MaxLen :
          ItemCount(count, per_page)

SpecLoader == InitCache /\ [][NextLoader]_vars

\* -------------------- use_pagination of pagination/hooks, with a reload
\* The revision of use_pagination that owns the cache itself and reads
\* PaginationState::reload_trigger (leptos-windowing/src/pagination).  Its
\* query is the sorting, which these behaviours leave alone.

\* The memo entry of window_range, read by the list component.
WindowRangeEntry == Entry("window_range", Range(0, 0), 0, 0)

\* range_to_load of this revision: the end is cut at a known item count.
pagination_range_to_load(page, count) ==
    LET start_index == saturating_sub(page, overscan_page_count)
                           * item_count_per_page
        end_index == (page + overscan_page_count) * item_count_per_page
    IN  Range(start_index,
              IF count # None THEN Min(end_index, count[1]) ELSE end_index)

\* The value the items effect returns and compares with on its next run.
clear_state == Some(<<query, reload_trigger>>)

\* PaginationState::trigger_reload
TriggerReload ==
    /\ runq = <<>>
    /\ reload_trigger < MaxReloads
    /\ Alive + 1 <= MaxTasks
    /\ reload_trigger' = reload_trigger + 1
    /\ runq' = <<ItemsEntry>>
    /\ last' = [op |-> "trigger_reload"]
    /\ UNCHANGED <<items, item_count, item_count_result, reload_counter,
                   query, current_page, cached_range_to_display, tasks,
                   query_changes, driver, loader, overscan_page_count,
                   pagination_item_count, page_count, page_count_error,
                   items_per_page, mutations, prev_clear_state,
                   controller_cache,
                   pauseVars>>

\* A handler writes current_page: the window_range memo is read again and
\* the items effect is woken if range_to_load changed.
PaginationGotoPage(p) ==
    /\ runq = <<>>
    /\ p # current_page
    /\ Alive + 1 <= MaxTasks
    /\ current_page' = p
    /\ runq' = IF pagination_range_to_load(p, pagination_item_count)
                    # pagination_range_to_load(current_page,
                                               pagination_item_count)
               THEN <<ItemsEntry, WindowRangeEntry>>
               ELSE <<WindowRangeEntry>>
    /\ last' = [op |-> "goto_page"]
    /\ UNCHANGED <<items, item_count, item_count_result, reload_counter,
                   query, cached_range_to_display, tasks, query_changes,
                   driver, loader, overscan_page_count, paginationVars,
                   mutations>>

\* The "Load items" effect of this revision: the cache is cleared when the
\* sorting or the reload trigger differ from the previous run, then the
\* missing range is marked Loading and its load is spawned.
PaginationItemsEffect ==
    /\ runq # <<>>
    /\ Head(runq) = ItemsEntry
    /\ LET cleared == IF prev_clear_state # clear_state
                      THEN clear(items) ELSE items
           missing == missing_range(
                          cleared, None,
                          pagination_range_to_load(current_page,
                                                   pagination_item_count))
       IN  IF missing # None
           THEN /\ items' = write_loading(cleared, missing[1])
                /\ runq' = Append(Notify(Tail(runq), ItemsEntry),
                                  SpawnedItems(missing[1]))
           ELSE /\ items' = cleared
                /\ runq' = IF cleared # items
                           THEN Notify(Tail(runq), ItemsEntry)
                           ELSE Tail(runq)
    /\ prev_clear_state' = clear_state
    /\ last' = [op |-> "pagination_items_effect",
                cleared |-> prev_clear_state # clear_state]
    /\ UNCHANGED <<item_count, item_count_result, reload_counter, query,
                   current_page, cached_range_to_display, tasks,
                   query_changes, driver, loader, overscan_page_count,
                   pagination_item_count, page_count, page_count_error,
                   items_per_page, mutations, reload_trigger,
                   controller_cache,
                   pauseVars>>

\* The window_range memo: the display range of the page; the cache is
\* grown to its end (a write that wakes the items effect).
WindowRange ==
    /\ runq # <<>>
    /\ Head(runq) = WindowRangeEntry
    /\ items' = grow(items, range_to_display.end)
    /\ cached_range_to_display' = range_to_display
    /\ runq' = IF items' # items THEN Notify(Tail(runq), ItemsEntry)
               ELSE Tail(runq)
    /\ last' = [op |-> "window_range"]
    /\ UNCHANGED <<item_count, item_count_result, reload_counter, query,
                   current_page, tasks, query_changes, driver, loader,
                   overscan_page_count, paginationVars, mutations>>

\* The first poll of a spawned task of this revision: it reads the sorting
\* and calls the loader.  The value of the reload trigger at the call is
\* kept with the task; the code keeps nothing of the kind.
PaginationStartTask ==
    /\ runq # <<>>
    /\ Head(runq).kind \in {"count", "items"}
    /\ tasks' = tasks (+) SetToBag({[Head(runq) EXCEPT
                                       !.gen = reload_trigger,
                                       !.q = query]})
    /\ runq' = Tail(runq)
    /\ last' = [op |-> "start", kind |-> Head(runq).kind]
    /\ UNCHANGED <<items, item_count, item_count_result, reload_counter,
                   query, current_page, cached_range_to_display,
                   query_changes, driver, loader, overscan_page_count,
                   paginationVars, mutations>>

\* The effects a write of the hook's item_count wakes: the page-count
\* effect, and the items effect if the range_to_load memo changes.
CountSubscribers(count) ==
    IF pagination_range_to_load(current_page, count)
           # pagination_range_to_load(current_page, pagination_item_count)
    THEN <<PageCountEntry, ItemsEntry>>
    ELSE <<PageCountEntry>>

\* The count-load spawned when the hook is set up resumes.
PaginationCompleteCount(t, count) ==
    /\ runq = <<>>
    /\ BagIn(t, tasks)
    /\ t.kind = "count"
    /\ tasks' = tasks (-) SetToBag({t})
    /\ IF count[1] = "Ok" /\ count[2] # None
       THEN /\ pagination_item_count' = count[2]
            /\ page_count_error' = page_count_error
            /\ runq' = CountSubscribers(count[2])
       ELSE /\ pagination_item_count' = pagination_item_count
            /\ page_count_error' =
                  Some(count_error_message(count))
            /\ runq' = <<>>
    /\ last' = [op |-> "count_done", stale |-> t.gen # reload_trigger,
                q |-> t.q]
    /\ UNCHANGED <<items, item_count, item_count_result, reload_counter,
                   query, current_page, cached_range_to_display,
                   query_changes, driver, loader, overscan_page_count,
                   page_count, items_per_page, mutations, reloadVars,
                   controller_cache,
                   pauseVars>>

\* An items-load of this revision resumes: the end of the data sets the
\* hook's item_count, then the answer is written to the cache.  Nothing is
\* compared with the state at the call.
PaginationCompleteItems(t, result) ==
    /\ runq = <<>>
    /\ BagIn(t, tasks)
    /\ t.kind = "items"
    /\ tasks' = tasks (-) SetToBag({t})
    /\ items' = AppliedItems(items, t, result)
    /\ IF EndOfData(t, result)
       THEN /\ pagination_item_count' = Some(result[2].range.end)
            /\ runq' = Notify(CountSubscribers(Some(result[2].range.end)),
                              ItemsEntry)
       ELSE /\ pagination_item_count' = pagination_item_count
            /\ runq' = IF items' # items THEN <<ItemsEntry>> ELSE <<>>
    /\ last' = [op |-> "items_done", stale |-> t.gen # reload_trigger,
                q |-> t.q, ok |-> result[1] = "Ok"]
    /\ UNCHANGED <<item_count, item_count_result, reload_counter, query,
                   current_page, cached_range_to_display, query_changes,
                   driver, loader, overscan_page_count, page_count,
                   page_count_error, items_per_page, mutations,
                   reloadVars, controller_cache,
                   pauseVars>>

\* use_pagination of this revision has been called: its effects and the
\* count-load it spawns wait for their first run.
InitReload ==
    /\ items = <<>>
    /\ item_count = None
    /\ item_count_result = OkR(None)
    /\ reload_counter = 0
    /\ query = 1
    /\ current_page = 0
    /\ cached_range_to_display = Range(0, 0)
    /\ runq = <<PageCountEntry, SpawnedCount, ItemsEntry, WindowRangeEntry>>
    /\ tasks = EmptyBag
    /\ query_changes = 0
    /\ driver = "pagination"
    /\ loader \in LoaderKinds
    /\ overscan_page_count \in Overscans
    /\ pagination_item_count = None
    /\ page_count = None
    /\ page_count_error = None
    /\ items_per_page = item_count_per_page
    /\ controller_cache = TRUE
    /\ reactive_loading_active = TRUE
    /\ paused_calls = <<>>
    /\ mutations = 0
    /\ reload_trigger = 0
    /\ prev_clear_state = None
    /\ last = [op |-> "new"]

NextReload ==
    \/ TriggerReload
    \/ \E p \in 0..MaxPage : PaginationGotoPage(p)
    \/ PaginationItemsEffect
    \/ WindowRange
    \/ PageCountEffect
    \/ PaginationStartTask
    \/ \E t \in BagToSet(tasks) :
          \E c \in CountOutcomes(t.q) : PaginationCompleteCount(t, c)
    \/ \E t \in BagToSet(tasks) :
          \E r \in ItemsOutcomes(t) : PaginationCompleteItems(t, r)

SpecReload == InitReload /\ [][NextReload]_vars

\* ------------------------------ use_pagination's page bookkeeping on its own
\* PaginationState and the two effects of use_pagination (the newest
\* revision, leptos-pagination).  The count result use_load_on_demand
\* publishes and the item_count_per_page signal are inputs here; the cache
\* and the loads belong to the driver specification.

\* The largest page next() is followed to while page_count is unknown.
MaxPageReached == 2 * MaxLen

\* The count results use_load_on_demand can publish.
CountResults ==
    {OkR(None)} \cup {ErrR(e) : e \in LoaderErrors}
        \cup {OkR(Some(n)) : n \in 0..MaxIndex}

\* The values the item_count_per_page signal takes.
PerPageValues == 1..MaxLen

\* set_item_count of use_load_on_demand: the result is published, which
\* wakes the count-result effect of use_pagination.
PublishCountResult(result) ==
    /\ runq = <<>>
    /\ item_count' = CountOf(result)
    /\ item_count_result' = result
    /\ runq' = <<CountResultEntry>>
    /\ last' = [op |-> "set_item_count", result |-> result]
    /\ UNCHANGED <<items, reload_counter, query, current_page,
                   cached_range_to_display, tasks, query_changes, driver,
                   loader, overscan_page_count, paginationVars, mutations>>

\* The caller writes the item_count_per_page signal: the page-count effect
\* reads it and is woken.
SetItemCountPerPage(p) ==
    /\ runq = <<>>
    /\ p # items_per_page
    /\ items_per_page' = p
    /\ runq' = <<PageCountEntry>>
    /\ last' = [op |-> "set_item_count_per_page", p |-> p]
    /\ UNCHANGED <<items, item_count, item_count_result, reload_counter,
                   query, current_page, cached_range_to_display, tasks,
                   query_changes, driver, loader, overscan_page_count,
                   pagination_item_count, page_count, page_count_error,
                   mutations, reloadVars, controller_cache,
                   pauseVars>>

\* PaginationState::is_last_page with the subtraction left unsaturated and
\* the comparison strict.
is_last_page_strict ==
    page_count # None /\ current_page > page_count[1] - 1

\* PaginationState::is_last_page
is_last_page ==
    page_count # None /\ current_page >= saturating_sub(page_count[1], 1)

\* PaginationState::is_first_page
is_first_page == current_page = 0

\* PaginationState::next
PaginationNext ==
    /\ runq = <<>>
    /\ is_last_page \/ current_page < MaxPageReached
    /\ current_page' = IF ~is_last_page THEN current_page + 1
                       ELSE current_page
    /\ last' = [op |-> "next", from |-> current_page]
    /\ UNCHANGED <<items, item_count, item_count_result, reload_counter,
                   query, cached_range_to_display, runq, tasks,
                   query_changes, driver, loader, overscan_page_count,
                   paginationVars, mutations>>

\* PaginationState::prev
PaginationPrev ==
    /\ runq = <<>>
    /\ current_page' = IF current_page > 0 THEN current_page - 1
                       ELSE current_page
    /\ last' = [op |-> "prev", from |-> current_page]
    /\ UNCHANGED <<items, item_count, item_count_result, reload_counter,
                   query, cached_range_to_display, runq, tasks,
                   query_changes, driver, loader, overscan_page_count,
                   paginationVars, mutations>>

\* use_pagination has created its two effects; both run once.
InitPagination ==
    /\ items = <<>>
    /\ item_count = None
    /\ item_count_result = OkR(None)
    /\ reload_counter = 0
    /\ query = 1
    /\ current_page = 0
    /\ cached_range_to_display = Range(0, 0)
    /\ runq = <<PageCountEntry, CountResultEntry>>
    /\ tasks = EmptyBag
    /\ query_changes = 0
    /\ driver = "use_load_on_demand"
    /\ loader = "Exact"
    /\ overscan_page_count = 1
    /\ pagination_item_count = None
    /\ page_count = None
    /\ page_count_error = None
    /\ items_per_page = item_count_per_page
    /\ controller_cache = TRUE
    /\ reactive_loading_active = TRUE
    /\ paused_calls = <<>>
    /\ mutations = 0
    /\ reload_trigger = 0
    /\ prev_clear_state = None
    /\ last = [op |-> "new"]

NextPagination ==
    \/ \E result \in CountResults : PublishCountResult(result)
    \/ \E p \in PerPageValues : SetItemCountPerPage(p)
    \/ CountResultEffect
    \/ PageCountEffect
    \/ PaginationNext
    \/ PaginationPrev

SpecPagination == InitPagination /\ [][NextPagination]_vars

\* ------------------------------------------------- use_pagination_controls
\* The derived signals of use_pagination_controls as functions of their
\* inputs c: the current page c.cp, the page count signal's value c.pc
\* (page_count.unwrap_or_default()) and the two options c.dpc
\* (display_page_count) and c.mpc (margin_page_count).

\* The largest page count the controls are computed for.
MaxPageCount == 4 * MaxLen

\* (start..end).collect::<Vec<usize>>()
collect(start, end) ==
    IF end > start THEN [k \in 1..(end - start) |-> start + k - 1] ELSE <<>>

additional_page_count(c) == c.dpc \div 2

current_range_start(c) == saturating_sub(c.cp, additional_page_count(c))

current_range_end(c) == c.cp + additional_page_count(c)

merge_current_with_start(c) == current_range_start(c) <= c.mpc

merge_current_with_end(c) ==
    current_range_end(c) + 1 >= saturating_sub(c.pc, c.mpc)

start_range_end(c) ==
    IF merge_current_with_start(c) THEN current_range_end(c)
    ELSE c.mpc + 1

end_range_start(c) ==
    IF merge_current_with_end(c) THEN current_range_start(c) + 1
    ELSE saturating_sub(c.pc, c.mpc + 1)

\* Controls that never merge all groups into one.
merge_all_never(c) == FALSE

merge_all(c) == start_range_end(c) + 1 >= end_range_start(c)

start_range(c) ==
    collect(0, IF merge_all(c) THEN c.pc ELSE start_range_end(c))

end_range(c) ==
    IF merge_all(c) THEN <<>> ELSE collect(end_range_start(c), c.pc)

current_range(c) ==
    IF merge_current_with_start(c) \/ merge_current_with_end(c)
           \/ merge_all(c)
    THEN <<>>
    ELSE collect(c.cp - c.mpc, c.cp + c.mpc + 1)

show_separator_before(c) == ~(merge_current_with_start(c) \/ merge_all(c))

show_separator_after(c) == ~(merge_current_with_end(c) \/ merge_all(c))

\* The inputs of the documented examples.
ControlsExamples ==
    {[cp |-> 50, pc |-> 100, dpc |-> 5, mpc |-> 1],
     [cp |-> 2, pc |-> 100, dpc |-> 5, mpc |-> 1],
     [cp |-> 97, pc |-> 100, dpc |-> 5, mpc |-> 1]}

\* The inputs the controls are computed for: current_page and page_count
\* up to MaxPageCount each (page_count 0 also stands for a count not yet
\* known, and current_page is a field any caller sets: it can lie beyond
\* the page count), and the examples.
ControlsInputs ==
    [cp : 0..MaxPageCount, pc : 0..MaxPageCount,
     dpc : 0..(2 * MaxLen), mpc : 0..MaxLen]
        \cup ControlsExamples

\* use_pagination_controls(state, options) is called, once, with state at
\* page c.cp of c.pc pages: the signals of PaginationControls are recorded.
UsePaginationControls(c) ==
    /\ last.op # "use_pagination_controls"
    /\ last' = [op |-> "use_pagination_controls", c |-> c,
                start_range |-> start_range(c),
                current_range |-> current_range(c),
                end_range |-> end_range(c),
                show_separator_before |-> show_separator_before(c),
                show_separator_after |-> show_separator_after(c)]
    /\ UNCHANGED <<items, item_count, driverVars>>

NextControls == \E c \in ControlsInputs : UsePaginationControls(c)

SpecControls == InitCache /\ [][NextControls]_vars

\* ------------------------------------------------------------- properties

\* The step is the continuation of a load (items or count).
IsCompletion == last'.op \in {"items_done", "count_done"}

\* The step leaves the cache and the published count as they are.
NothingApplied == UNCHANGED <<items, item_count, item_count_result>>

\* C1: a load (items or count) that completes with a captured reload counter
\* different from the current one changes no cache entry, not
\* cache.item_count and not item_count_result.
C1_StaleCompletionChangesNothing ==
    [][(IsCompletion /\ last'.stale) => NothingApplied]_vars

\* A stale items-load has just been dropped while the cache holds entries
\* the new generation wrote.
C1_Witness ==
    /\ last.op = "items_done"
    /\ last.stale
    /\ last.ok
    /\ \E k \in 1..Len(items) : items[k] # Placeholder

\* C2: the response of a load issued under a query that has since changed
\* is discarded: it loads no cache entry and sets neither cache.item_count
\* nor item_count_result.
C2_OldQueryResponseDiscarded ==
    [][(IsCompletion /\ last'.q # query) => NothingApplied]_vars

\* Index i is missing from the cache: not yet allocated, or Placeholder.
IsMissing(its, i) == i >= Len(its) \/ At(its, i) = Placeholder

\* C3: write_loaded(Err(e), requested) sets exactly the indices of
\* [requested.start, min(requested.end, len)) to Error(e) and leaves every
\* other index as it was.
C3_ErrorScopedToRequestedRange ==
    [][last'.op = "write_loaded_err" =>
          items' = [k \in 1..Len(items) |->
                      IF /\ k - 1 >= last'.range.start
                         /\ k - 1 < Min(last'.range.end, Len(items))
                      THEN Error(last'.error) ELSE items[k]]]_vars

\* C4: a run of the items-load effect passes to write_loading / load_items
\* only indices that are Placeholder (or not yet allocated) when it runs;
\* an index that is Loading, Loaded or Error is never fetched again.
C4_NeverRefetchesNonPlaceholder ==
    [][(last'.op = "items_effect" /\ last'.missing # None) =>
          \A i \in Indices(last'.missing[1]) : IsMissing(items, i)]_vars

\* C6: with item_count = Some(n), missing_range returns no range that ends
\* beyond n, and None for a window that lies at or beyond n.
C6_MissingRangeWithinItemCount ==
    item_count # None =>
        \A W \in Ranges :
            LET R == missing_range(items, item_count, W)
            IN  /\ R # None => R[1].end <= item_count[1]
                /\ W.start >= item_count[1] => R = None

\* C10: the range of every call to a PaginatedLoader's load_items_inner is
\* one full page: it starts at a multiple of PAGE_ITEM_COUNT and holds
\* PAGE_ITEM_COUNT indices.
C10_PaginatedCallsAreOnePage ==
    loader = "Paginated" =>
        \A t \in BagToSet(tasks) :
            t.kind = "items" =>
                PageAssertions(corrected_range(loader, t.missing))

\* The latest call was write_loaded(Ok(..)) with as many items as its range
\* holds.
FullLoadedItems ==
    last.op = "write_loaded_ok" /\ Len(last.vals) = RangeLen(last.range)

\* After the latest write_loaded(Ok(..)) every index of its range reads the
\* item loaded for it and missing_range of that range is None.
RoundTrip ==
    /\ \A i \in Indices(last.range) :
          /\ i < Len(items)
          /\ i - last.range.start < Len(last.vals)
          /\ At(items, i) = Loaded(last.vals[i - last.range.start + 1])
    /\ missing_range(items, item_count, last.range) = None

BelowCount(i) == item_count = None \/ i < item_count[1]

\* The missing indices of a window.
MissingIn(W) == {i \in Indices(W) : IsMissing(items, i)}

\* C7 (as amended): missing_range(W) is None only if W has no missing index
\* below item_count; a range it returns contains every missing index of W
\* below item_count and does not start before the first missing index of W.
C7_MissingRangeCoversMissing ==
    \A W \in Ranges :
        LET R == missing_range(items, item_count, W)
        IN  /\ R = None => \A i \in MissingIn(W) : ~BelowCount(i)
            /\ R # None =>
                  /\ \A i \in MissingIn(W) :
                        BelowCount(i) => i \in Indices(R[1])
                  /\ \E i \in MissingIn(W) : i <= R[1].start

\* C7 as stated: the range returned contains every Placeholder index of W.
C7_MissingRangeCoversEveryPlaceholder ==
    \A W \in Ranges :
        LET R == missing_range(items, item_count, W)
        IN  /\ R = None => \A i \in MissingIn(W) : ~BelowCount(i)
            /\ R # None =>
                  /\ \A i \in MissingIn(W) :
                        i < Len(items) => i \in Indices(R[1])
                  /\ \E i \in MissingIn(W) : i <= R[1].start

\* missing_range has just answered with a range that skips a leading entry
\* of the window and stops at the item count, before a Placeholder.
C7_Witness ==
    /\ last.op = "missing_range"
    /\ last.result # None
    /\ item_count # None
    /\ last.result[1].start > last.range.start
    /\ last.result[1].end = item_count[1]
    /\ last.result[1].end < last.range.end
    /\ last.result[1].end < Len(items)
    /\ At(items, last.result[1].end) = Placeholder

\* C8: a range [s, e) that missing_range returns is minimal: s and e - 1 are
\* both missing indices.
C8_MissingRangeMinimal ==
    \A W \in Ranges :
        LET R == missing_range(items, item_count, W)
        IN  R # None =>
              /\ IsMissing(items, R[1].start)
              /\ IsMissing(items, R[1].end - 1)

AlignedAround(c, r) ==
    {a \in [start : {k * c : k \in 0..MaxIndex},
            end : {k * c : k \in 0..(MaxIndex + 1)}] :
        a.start <= r.start /\ r.end <= a.end}

\* C11: with CHUNK_SIZE = Some(c), load_items hands to the inner load the
\* range [floor(s/c)*c, ceil(e/c)*c) of the requested [s, e): it contains
\* [s, e), both bounds are multiples of c and no smaller range does
\* ([5,10) with c = 20 becomes [0,20)); with CHUNK_SIZE = None the range
\* is handed on unchanged.
C11_ChunkAlignedRange ==
    /\ chunk_corrected(Some(20), Range(5, 10)) = Range(0, 20)
    /\ last.op = "load_items" =>
          IF last.chunk = None THEN last.inner = last.range
          ELSE /\ last.inner \in AlignedAround(last.chunk[1], last.range)
               /\ \A a \in AlignedAround(last.chunk[1], last.range) :
                     a.start <= last.inner.start /\ last.inner.end <= a.end

\* load_items has just rounded a range that starts and ends inside chunks
\* outward to more than one chunk.
C11_Witness ==
    /\ last.op = "load_items"
    /\ last.chunk # None
    /\ last.inner.start < last.range.start
    /\ last.range.end < last.inner.end
    /\ last.inner.end - last.inner.start > last.chunk[1]

\* C14: the count of a PaginatedLoader is normalised to items: Items(n)
\* gives n, Pages(n) gives n * PAGE_ITEM_COUNT, None stays unknown and an
\* error is passed through; showing PAGE_ITEM_COUNT items per page, a
\* source reporting Pages(n) leads to page_count = n.
C14_PaginatedCountNormalised ==
    last.op = "item_count" =>
        /\ \A n \in 0..MaxLen :
              /\ last.count = OkR(Some(<<"Items", n>>)) =>
                    last.result = OkR(Some(n))
              /\ last.count = OkR(Some(<<"Pages", n>>)) =>
                    /\ last.result = OkR(Some(n * PAGE_ITEM_COUNT))
                    /\ last.per_page = PAGE_ITEM_COUNT =>
                          last.page_count = Some(n)
        /\ last.count = OkR(None) => last.result = OkR(None)
        /\ \A e \in LoaderErrors : last.count = ErrR(e) => last.result = ErrR(e)

\* A source has just reported a number of pages, shown with
\* PAGE_ITEM_COUNT items per page.
C14_Witness ==
    /\ last.op = "item_count"
    /\ last.count = OkR(Some(<<"Pages", 3>>))
    /\ last.per_page = PAGE_ITEM_COUNT
    /\ last.result = OkR(Some(3 * PAGE_ITEM_COUNT))
    /\ last.page_count = Some(3)

\* C20: use_pagination loads the current page with overscan_page_count
\* pages before and after it: range_to_load is
\* [max(0, current_page - overscan) * items_per_page,
\*  (current_page + overscan + 1) * items_per_page)
\* and always contains range_to_display.
C20_RangeToLoadCoversOverscan ==
    /\ range_to_load =
          Range(Max(0, current_page - overscan_page_count)
                    * item_count_per_page,
                (current_page + overscan_page_count + 1)
                    * item_count_per_page)
    /\ range_to_load.start <= range_to_display.start
    /\ range_to_display.end <= range_to_load.end

\* The step resumes the items-load t with an Ok answer that the current
\* generation and query still wait for.
ItemsApplied(t) ==
    /\ BagIn(t, tasks)
    /\ t.kind = "items"
    /\ tasks' = tasks (-) SetToBag({t})
    /\ last'.op = "items_done"
    /\ last'.ok
    /\ ~last'.stale
    /\ last'.q = query

\* The answer of the loader to the items-load t.
Answer(t) == load_items_inner(loader, corrected_range(loader, t.missing), t.q)

\* C13: when an ExactLoader returns fewer items than the requested range
\* holds, item_count becomes range.start + the number of returned items
\* and no index of the requested range beyond them is left Loading.
C13_ExactShortAnswerEndsData ==
    [][\A t \in BagToSet(tasks) :
          (/\ ItemsApplied(t)
           /\ loader = "Exact"
           /\ Len(Answer(t).items) < RangeLen(t.missing)) =>
              /\ item_count' = Some(t.missing.start + Len(Answer(t).items))
              /\ \A i \in Indices(t.missing) :
                    i >= t.missing.start + Len(Answer(t).items) =>
                        (i < Len(items') => At(items', i) # Loading)]_vars

\* Effects have settled: the executor's queue is empty.
Settled == runq = <<>>

\* The step resumes the items-load t of a PaginatedLoader, a call for one
\* page, with a page of fewer than PAGE_ITEM_COUNT items.
ShortPageApplied(t) ==
    /\ ItemsApplied(t)
    /\ loader = "Paginated"
    /\ PageAssertions(corrected_range(loader, t.missing))
    /\ Len(Answer(t).items) < PAGE_ITEM_COUNT

\* C12: when, in the current generation, a PaginatedLoader returns
\* k < PAGE_ITEM_COUNT items for page p, exactly the indices
\* [p*P, p*P + k) of that page become Loaded, cache.item_count and
\* item_count_result become p*P + k, and (once the effects have run)
\* page_count is ceil of that count / items per page.
C12_ShortPageEndsData ==
    /\ [][\A t \in BagToSet(tasks) :
            ShortPageApplied(t) =>
                LET page_start == corrected_range(loader, t.missing).start
                    k == Len(Answer(t).items)
                IN  /\ \A i \in page_start..(page_start + k - 1) :
                          /\ i < Len(items')
                          /\ At(items', i) = Loaded(Item(t.q, i))
                    /\ \A i \in (page_start + k)..
                                 (page_start + PAGE_ITEM_COUNT - 1) :
                          \/ i >= Len(items')
                          \/ At(items', i) = Placeholder
                          \/ i < Len(items) /\ At(items', i) = At(items, i)
                    /\ item_count' = Some(page_start + k)
                    /\ item_count_result' = OkR(Some(page_start + k))]_vars
    /\ [](\A n \in 0..MaxIndex :
             (Settled /\ item_count_result = OkR(Some(n))) =>
                 page_count = Some(div_ceil(n, item_count_per_page)))

\* C17: loads are coalesced within a generation: a run of the items-load
\* effect issues no load_items call for an index that is already Loading.
C17_NoSecondLoadForLoading ==
    [][(last'.op = "items_effect" /\ last'.missing # None) =>
          \A i \in Indices(last'.missing[1]) :
              i < Len(items) => At(items, i) # Loading]_vars

\* The number of entries that are not Placeholder.
Filled(its) == Cardinality({k \in 1..Len(its) : its[k] # Placeholder})

\* The step is a run of the invalidation effect.
IsInvalidation == last'.op = "clear"

\* The step resets no entry to Placeholder: every entry that is not
\* Placeholder stays so at its index; remove_item takes one entry away and
\* insert_item shifts the entries behind the new one.
ResetsNoEntry ==
    IF last'.op \in {"remove_item", "insert_item"}
    THEN Filled(items') >= Filled(items)
                             - (IF last'.op = "remove_item" THEN 1 ELSE 0)
    ELSE \A k \in 1..Len(items) :
            items[k] # Placeholder =>
                k <= Len(items') /\ items'[k] # Placeholder

\* C15: the cache is cleared and the generation advances only in a run of
\* the invalidation effect, which runs once at the start and once per
\* query change; each run advances the generation (the reload counter of
\* use_load_on_demand.rs) by one and clears the cache.  Every other step
\* (load completions, range changes, page navigation, the mutation API)
\* leaves the generation alone and resets no entry to Placeholder.
C15_InvalidationOnlyOnQueryChange ==
    /\ [][/\ IsInvalidation =>
                /\ items' = [k \in 1..Len(items) |-> Placeholder]
                /\ item_count' = None
                /\ (driver = "use_load_on_demand" =>
                       reload_counter' = reload_counter + 1)
          /\ ~IsInvalidation =>
                /\ reload_counter' = reload_counter
                /\ ResetsNoEntry]_vars
    /\ [](driver = "use_load_on_demand" =>
             /\ reload_counter <= query_changes + 1
             /\ (Settled => reload_counter = query_changes + 1))

\* The invalidation effect has just run for a query change, with loads of
\* the generation before still in flight.
C15_Witness ==
    /\ last.op = "clear"
    /\ driver = "use_load_on_demand"
    /\ reload_counter = 2
    /\ query_changes = 1
    /\ Len(items) >= 2
    /\ \E t \in BagToSet(tasks) : t.kind = "items" /\ t.gen = 1

\* The step is the run of the items effect that notices a reload.
ReloadHandled ==
    /\ last'.op = "pagination_items_effect"
    /\ last'.cleared
    /\ reload_trigger > 0

\* C16: trigger_reload() is treated like a query change: the run of the
\* driver that notices it clears the cache and loads the item count and
\* the missing items of the window again, and the response to a load
\* issued before the reload is discarded when it arrives.
C16_TriggerReloadLikeQueryChange ==
    [][/\ ReloadHandled =>
            /\ \A k \in 1..Len(items') :
                  items'[k] \in {Placeholder, Loading}
            /\ \E k \in 1..Len(runq') : runq'[k].kind = "count"
            /\ range_to_load.start < range_to_load.end =>
                  \E k \in 1..Len(runq') : runq'[k].kind = "items"
      /\ (IsCompletion /\ last'.stale) =>
            UNCHANGED <<items, pagination_item_count>>]_vars

\* C18: once the effects have settled, the published display window is
\* [range_to_display.start, min(range_to_display.end, n)) when the cache's
\* item_count is Some(n) and range_to_display when the count is unknown, so
\* it holds no index >= n; this also holds after the count changed through a
\* count-load, an end-of-data items-load, a query change or insert_item /
\* remove_item.
C18_DisplayWindowClamped ==
    Settled =>
        /\ item_count = None =>
              cached_range_to_display = range_to_display
        /\ item_count # None =>
              cached_range_to_display =
                  Range(range_to_display.start,
                        Min(range_to_display.end, item_count[1]))
        /\ item_count # None =>
              \A i \in cached_range_to_display.start
                          .. cached_range_to_display.end - 1 :
                  i < item_count[1]

\* C18's case: a settled state after a mutation changed the item count, with
\* the window cut at the count.
C18_Witness ==
    /\ Settled
    /\ mutations > 0
    /\ last.op = "items_effect"
    /\ item_count # None
    /\ item_count[1] < range_to_display.end
    /\ cached_range_to_display.end = item_count[1]

\* C19: the cache always covers the display: in every reachable state every
\* index of the published display window is a valid cache index (display
\* end <= cache length), for every page and overscan (overscan 0 and a
\* shrinking remove_item included).
C19_CacheCoversDisplay ==
    \A i \in cached_range_to_display.start
                .. cached_range_to_display.end - 1 :
        i < Len(items)

\* C21: once the effects have settled, a count result Ok(Some(n)) has made
\* page_count Some(ceil(n / items_per_page)) and cleared page_count_error,
\* also after items_per_page changed; Ok(None) has set page_count_error to
\* "Data source didn't provide an item/page count" and Err(e) to
\* "Error fetching item/page count: " followed by the error's text.
C21_PageCountFromCountResult ==
    Settled =>
        /\ (item_count_result[1] = "Ok" /\ item_count_result[2] # None) =>
              LET n == item_count_result[2][1]
              IN  /\ page_count # None
                  /\ page_count[1] * items_per_page >= n
                  /\ page_count[1] * items_per_page < n + items_per_page
                  /\ page_count_error = None
        /\ item_count_result = OkR(None) =>
              page_count_error
                  = Some("Data source didn't provide an item/page count")
        /\ item_count_result = ErrR(1) =>
              page_count_error = Some("Error fetching item/page count: 1")

\* C21's case: the page-count effect has run again after the per-page value
\* went from 1 to 3 under the known count 3, and took page_count from 3 to 1.
C21_Witness ==
    /\ Settled
    /\ last.op = "page_count_effect"
    /\ last.from = Some(3)
    /\ item_count_result = OkR(Some(3))
    /\ items_per_page = 3
    /\ page_count = Some(1)
    /\ page_count_error = None

\* The last page of a known page count pc: max(pc - 1, 0).
LastPageOf(pc) == IF pc >= 1 THEN pc - 1 ELSE 0

\* C23: with a known page count pc, next() and prev() called on a page of
\* [0, max(pc - 1, 0)] leave current_page in that interval; next() leaves
\* the page alone exactly when current_page >= max(pc - 1, 0) and advances
\* by one otherwise, also while page_count is unknown; prev() leaves the
\* page alone exactly at page 0, steps back by one otherwise and never goes
\* below 0.
C23_NextPrevStayInRange ==
    [][/\ (last'.op = "next" /\ page_count # None) =>
            /\ current_page' =
                   IF current_page >= LastPageOf(page_count[1])
                   THEN current_page ELSE current_page + 1
            /\ current_page <= LastPageOf(page_count[1]) =>
                   current_page' <= LastPageOf(page_count[1])
       /\ (last'.op = "next" /\ page_count = None) =>
            current_page' = current_page + 1
       /\ last'.op = "prev" =>
            /\ current_page' >= 0
            /\ current_page' =
                   IF current_page = 0 THEN 0 ELSE current_page - 1
            /\ (page_count # None
                   /\ current_page <= LastPageOf(page_count[1])) =>
                   current_page' <= LastPageOf(page_count[1])
       /\ last'.op \in {"next", "prev"} => page_count' = page_count]_vars

\* C23's case: next() was called on the last page of a known page count and
\* left the page where it was.
C23_Witness ==
    /\ last.op = "next"
    /\ page_count = Some(3)
    /\ last.from = 2
    /\ current_page = 2

\* The published count result is a failure or an unknown count.
NoCount(result) == result[1] = "Err" \/ result = OkR(None)

ControlsRead == last.op = "use_pagination_controls"

\* The pages a range lists.
PagesOf(range) == {range[k] : k \in 1..Len(range)}

\* C24: when the current-page window is merged with neither edge,
\* start_range is the first margin_page_count pages [0, mpc), end_range the
\* last margin_page_count pages [pc - mpc, pc) and current_range the pages
\* cp - dpc/2 .. cp + dpc/2 inclusive, with both separators shown.
C24_UnmergedRanges ==
    (/\ ControlsRead
     /\ ~merge_current_with_start(last.c)
     /\ ~merge_current_with_end(last.c)
     /\ ~merge_all(last.c)) =>
        /\ last.start_range = collect(0, last.c.mpc)
        /\ last.end_range = collect(last.c.pc - last.c.mpc, last.c.pc)
        /\ last.current_range =
              collect(last.c.cp - last.c.dpc \div 2,
                      last.c.cp + last.c.dpc \div 2 + 1)
        /\ last.show_separator_before
        /\ last.show_separator_after

\* C25: when the current-page window is merged with the start (and not
\* everything is merged), start_range lists every page from 0 to
\* cp + dpc/2 inclusive, current_range is empty and only the
\* after-separator is shown; when it is merged with the end, end_range
\* lists every page from cp - dpc/2 on, current_range is empty and only the
\* before-separator is shown.
C25_MergedWithEdge ==
    /\ (/\ ControlsRead
        /\ merge_current_with_start(last.c)
        /\ ~merge_all(last.c)) =>
           /\ last.start_range =
                 collect(0, last.c.cp + last.c.dpc \div 2 + 1)
           /\ last.current_range = <<>>
           /\ ~last.show_separator_before
           /\ last.show_separator_after
    /\ (/\ ControlsRead
        /\ merge_current_with_end(last.c)
        /\ ~merge_all(last.c)) =>
           /\ last.end_range =
                 collect(saturating_sub(last.c.cp, last.c.dpc \div 2),
                         last.c.pc)
           /\ last.current_range = <<>>
           /\ last.show_separator_before
           /\ ~last.show_separator_after

\* C26: for every (current_page, page_count, display_page_count,
\* margin_page_count) the three ranges are pairwise disjoint: no page is
\* listed in two groups.
C26_RangesDisjoint ==
    ControlsRead =>
        /\ PagesOf(last.start_range) \cap PagesOf(last.current_range) = {}
        /\ PagesOf(last.current_range) \cap PagesOf(last.end_range) = {}
        /\ PagesOf(last.start_range) \cap PagesOf(last.end_range) = {}

\* At least one page lies between the last page of the group before and the
\* first page of the group after (both not empty).
Gap(before, after) == before[Len(before)] + 1 < after[1]

\* C27: a separator is shown only where pages are omitted between the
\* nearest non-empty group before it and the nearest non-empty group after
\* it, and wherever pages are omitted between two neighbouring non-empty
\* groups a separator between them is shown.
C27_SeparatorsMarkGaps ==
    ControlsRead =>
        LET st == last.start_range
            cu == last.current_range
            en == last.end_range
            after_before == IF cu # <<>> THEN cu ELSE en
            before_after == IF cu # <<>> THEN cu ELSE st
        IN  /\ last.show_separator_before =>
                  /\ st # <<>>
                  /\ after_before # <<>>
                  /\ Gap(st, after_before)
            /\ last.show_separator_after =>
                  /\ before_after # <<>>
                  /\ en # <<>>
                  /\ Gap(before_after, en)
            /\ (st # <<>> /\ cu # <<>> /\ Gap(st, cu)) =>
                  last.show_separator_before
            /\ (cu # <<>> /\ en # <<>> /\ Gap(cu, en)) =>
                  last.show_separator_after
            /\ (st # <<>> /\ cu = <<>> /\ en # <<>> /\ Gap(st, en)) =>
                  last.show_separator_before \/ last.show_separator_after

\* C28: whenever neither separator is shown, all pages are merged into one
\* group: start_range is exactly [0, page_count) and current_range and
\* end_range are empty.
C28_NoSeparatorMeansAllMerged ==
    (ControlsRead /\ ~last.show_separator_before
                  /\ ~last.show_separator_after) =>
        /\ last.start_range = collect(0, last.c.pc)
        /\ last.current_range = <<>>
        /\ last.end_range = <<>>

\* C28's case: page 2 of 5 pages with the default options: no separator is
\* shown and the start range lists all five pages.
C28_Witness ==
    /\ ControlsRead
    /\ last.c = [cp |-> 2, pc |-> 5, dpc |-> 5, mpc |-> 1]
    /\ ~last.show_separator_before
    /\ ~last.show_separator_after
    /\ last.start_range = <<0, 1, 2, 3, 4>>

\* The operations of the mutation API.
MutationOps == {"update_item", "remove_item", "insert_item"}

\* C29: update_item, insert_item and remove_item never cause a loader call:
\* the run of the items-load effect that follows a mutation finds nothing
\* missing, marks no index Loading and spawns no load.
C29_MutationCausesNoLoad ==
    [][(last.op \in MutationOps /\ last'.op = "items_effect") =>
            /\ last'.missing = None
            /\ items' = items
            /\ \A k \in 1..Len(runq') : runq'[k].kind # "items"]_vars

CannotApply(r, connected, its, count) ==
    \/ ~connected
    \/ r.op = "controller_insert_item" /\ r.index > Len(its)
    \/ r.op # "controller_insert_item" /\ r.index >= Len(its)
    \/ r.op = "controller_remove_item" /\ count = Some(0)

\* C31: a mutation that cannot be applied is a logged no-op and never
\* panics: a CacheController method called before init_with_item_window, or
\* with an index outside the cache, or remove_item while item_count is
\* Some(0), leaves the cache and item_count unchanged.
C31_MisuseIsLoggedNoOp ==
    [][(/\ last'.op \in ControllerOps
        /\ CannotApply(last', controller_cache, items, item_count)) =>
            /\ last'.outcome = "logged"
            /\ UNCHANGED <<items, item_count>>]_vars

\* The non-empty ranges a caller can ask missing_range about.
NonEmptyRanges == {W \in Ranges : W.start < W.end}

\* C32: Cache::clear() keeps the length of the cache, turns every entry into
\* Placeholder and sets item_count to None; directly afterwards
\* missing_range(W) returns W itself for every non-empty range W.
C32_ClearResetsEverything ==
    [][last'.op = "clear" =>
        /\ Len(items') = Len(items)
        /\ \A k \in 1..Len(items') : items'[k] = Placeholder
        /\ item_count' = None
        /\ \A W \in NonEmptyRanges :
               missing_range(items', item_count', W) = Some(W)]_vars

\* A clear has just run on a full cache that held entries other than
\* Placeholder and a known count.
C32_Witness ==
    /\ last.op = "clear"
    /\ last.held /\ last.counted
    /\ Len(items) = MaxLen
    /\ item_count = None
    /\ \A k \in 1..Len(items) : items[k] = Placeholder

\* The call that has just returned: a with_reactive_loading_paused call or
\* one of the mutation methods, which wrap their write in one.
PausedCallOps ==
    {"with_reactive_loading_paused", "paused_update_item",
     "paused_remove_item", "paused_insert_item"}

ReturnedInFull(t, result) ==
    /\ result[1] = "Ok"
    /\ Len(result[2].items) =
          IF loader = "Paginated" THEN PAGE_ITEM_COUNT
          ELSE LET asked == corrected_range(loader, t.missing)
               IN  asked.end - asked.start

\* C34: an items-load completion whose answer was returned in full leaves
\* cache.item_count and item_count_result unchanged; the count changes only
\* when the source signalled the end of the data.
C34_FullAnswerKeepsCount ==
    [][\A t \in BagToSet(tasks) : \A result \in ItemsOutcomes(t) :
          (CompleteItems(t, result) /\ ReturnedInFull(t, result)) =>
              UNCHANGED <<item_count, item_count_result>>]_vars

\* C35: within one generation a count-load that completes after the cache's
\* item_count was set to Some(n) (by an items-load that found the end of
\* the data) does not reset or overwrite it, whatever its answer is.
C35_LateCountKeepsDiscoveredCount ==
    [][\A t \in BagToSet(tasks) : \A count \in CountOutcomes(t.q) :
          (/\ CompleteCount(t, count)
           /\ driver = "use_load_on_demand"
           /\ t.gen = reload_counter
           /\ item_count # None) =>
              /\ item_count' = item_count
              /\ item_count_result' = item_count_result]_vars

\* Every index on display is Loaded or Error.
DisplayedResolved ==
    \A i \in Indices(cached_range_to_display) :
        /\ i < Len(items)
        /\ At(items, i)[1] \in {"Loaded", "Error"}

\* C36: if the query and the window stop changing and every loader call
\* completes, every displayed index is eventually Loaded or Error.
C36_DisplayEventuallyResolved ==
    <>[][~Navigation]_vars => []<>DisplayedResolved

\* C37: once the effects have settled, a known cache.item_count = Some(n)
\* goes with page_count = Some(ceil(n / items per page)), also after
\* insert_item and remove_item have changed the count.
C37_PageCountFollowsItemCount ==
    (Settled /\ item_count # None) =>
        page_count = Some(div_ceil(item_count[1], items_per_page))

\* The pages listed in the three ranges.
ListedPages ==
    PagesOf(last.start_range) \cup PagesOf(last.current_range)
        \cup PagesOf(last.end_range)

\* C38: every page listed in start_range, current_range or end_range is a
\* page index below page_count, for every current_page, display_page_count
\* and margin_page_count, also when page_count is unknown or 0 and when
\* current_page is not below page_count.
C38_ListedPagesExist ==
    ControlsRead => \A p \in ListedPages : p < last.c.pc

\* The number of ranges that list the current page.
RangesListingCurrent ==
    Cardinality({r \in {"start_range", "current_range", "end_range"} :
                    last.c.cp \in PagesOf(last[r])})

\* C39: whenever current_page < page_count, the current page is listed in
\* exactly one of start_range, current_range and end_range, for every
\* display_page_count and margin_page_count (0 and 1 included).
C39_CurrentPageListedOnce ==
    (ControlsRead /\ last.c.cp < last.c.pc) => RangesListingCurrent = 1

\* The state of index i of a cache; a slot not allocated yet is a
\* Placeholder to come.
StateAt(its, i) == IF i < Len(its) THEN At(its, i) ELSE Placeholder

\* C40: write_loaded(Ok(LoadedItems{items, range}), _) changes only indices
\* inside range: every entry outside [range.start, range.end) is as before
\* (also with more items than the range holds, in a cache longer than
\* range.end), and with fewer items the uncovered tail of the range keeps
\* its state.
C40_WriteLoadedStaysInRange ==
    [][last'.op = "write_loaded_items" =>
        LET range == last'.range
        IN  /\ \A i \in 0..(Len(items') - 1) :
                  (i < range.start \/ i >= range.end) =>
                      At(items', i) = StateAt(items, i)
            /\ \A i \in Indices(range) :
                  i >= range.start + last'.n =>
                      StateAt(items', i) = StateAt(items, i)]_vars

====
